---- MODULE Spec2Model ----
(***************************************************************************)
(* The explore page-parameter store (pageParamsContext): the typed page    *)
(* parameters are derived from the location's query, and every setter      *)
(* computes a new location with newExploreTarget and navigates to it.      *)
(***************************************************************************)
EXTENDS Integers, Sequences, FiniteSets, TLC

(***************************************************************************)
(* Bounds of the model.                                                    *)
(***************************************************************************)
\* most fields one raw WritablePageParams object sets or clears
MaxTouched == 2
\* most navigations followed in one behaviour of the store
MaxNav == 2
\* longest list of routes handed to findFirstRouteWithoutRouteParam
MaxRoutes == 3
\* most profiles in a profile group
MaxProfiles == 3

(***************************************************************************)
(* Small helpers on sequences and on query objects (functions whose domain *)
(* is the set of keys present).                                            *)
(***************************************************************************)
Includes(s, x) == \E i \in 1..Len(s) : s[i] = x

Has(q, k) == k \in DOMAIN q

Put(q, k, v) == [x \in DOMAIN q \cup {k} |-> IF x = k THEN v ELSE q[x]]

Remove(q, k) == [x \in DOMAIN q \ {k} |-> q[x]]

EmptyQuery == [x \in {} |-> ""]

(***************************************************************************)
(* WritablePageParams: a function whose domain is the set of fields the    *)
(* object carries; a field outside the domain is undefined, a field inside *)
(* is either null or a value.                                              *)
(***************************************************************************)
Fields ==
  {"dataset", "fields", "groupBys", "mode", "query", "sortBys", "visualizes",
   "title", "id"}

Null == [null |-> TRUE]

Val(v) == [null |-> FALSE, value |-> v]

IsUndefined(u, f) == f \notin DOMAIN u

IsNull(u, f) == f \in DOMAIN u /\ u[f].null

IsValue(u, f) == f \in DOMAIN u /\ ~u[f].null

EmptyUpdate == [x \in {} |-> Null]

\* the value a parameter has when it is undefined
Undefined == "<undefined>"

(***************************************************************************)
(* Mode                                                                    *)
(***************************************************************************)
SAMPLES == "samples"

AGGREGATE == "aggregate"

Modes == {SAMPLES, AGGREGATE}

defaultMode == SAMPLES

getModeFromLocation(loc) ==
  IF Has(loc.query, "mode") /\ loc.query["mode"] \in Modes
  THEN loc.query["mode"]
  ELSE defaultMode

updateLocationWithMode(query, update) ==
  IF IsValue(update, "mode") THEN Put(query, "mode", update["mode"].value)
  ELSE IF IsNull(update, "mode") THEN Remove(query, "mode")
  ELSE query

(***************************************************************************)
(* Dataset                                                                 *)
(***************************************************************************)
DiscoverDatasets == {"spans", "spansRpc"}

defaultDataset == Undefined

getDatasetFromLocation(loc) ==
  IF Has(loc.query, "dataset") /\ loc.query["dataset"] \in DiscoverDatasets
  THEN loc.query["dataset"]
  ELSE defaultDataset

updateLocationWithDataset(query, update) ==
  IF IsValue(update, "dataset") THEN Put(query, "dataset", update["dataset"].value)
  ELSE IF IsNull(update, "dataset") THEN Remove(query, "dataset")
  ELSE query

(***************************************************************************)
(* Fields                                                                  *)
(***************************************************************************)
defaultFields == <<"id">>

getFieldsFromLocation(loc) ==
  IF Has(loc.query, "field") THEN loc.query["field"] ELSE defaultFields

updateLocationWithFields(query, update) ==
  IF IsValue(update, "fields") THEN Put(query, "field", update["fields"].value)
  ELSE IF IsNull(update, "fields") THEN Remove(query, "field")
  ELSE query

(***************************************************************************)
(* Group bys                                                               *)
(***************************************************************************)
defaultGroupBys == <<"">>

getGroupBysFromLocation(loc) ==
  IF Has(loc.query, "groupBy") THEN loc.query["groupBy"] ELSE defaultGroupBys

updateLocationWithGroupBys(query, update) ==
  IF IsValue(update, "groupBys") THEN Put(query, "groupBy", update["groupBys"].value)
  ELSE IF IsNull(update, "groupBys") THEN Remove(query, "groupBy")
  ELSE query

(***************************************************************************)
(* Query, title, id                                                        *)
(***************************************************************************)
defaultQuery == ""

getQueryFromLocation(loc) ==
  IF Has(loc.query, "query") THEN loc.query["query"] ELSE defaultQuery

updateLocationWithQuery(query, update) ==
  IF IsValue(update, "query") THEN Put(query, "query", update["query"].value)
  ELSE IF IsNull(update, "query") THEN Remove(query, "query")
  ELSE query

defaultTitle == Undefined

getTitleFromLocation(loc) ==
  IF Has(loc.query, "title") THEN loc.query["title"] ELSE defaultTitle

updateLocationWithTitle(query, update) ==
  IF IsValue(update, "title") THEN Put(query, "title", update["title"].value)
  ELSE IF IsNull(update, "title") THEN Remove(query, "title")
  ELSE query

defaultId == Undefined

getIdFromLocation(loc) ==
  IF Has(loc.query, "id") THEN loc.query["id"] ELSE defaultId

updateLocationWithId(query, update) ==
  IF IsValue(update, "id") THEN Put(query, "id", update["id"].value)
  ELSE IF IsNull(update, "id") THEN Remove(query, "id")
  ELSE query

(***************************************************************************)
(* Visualizes.  A visualize is written to the query as one JSON string per *)
(* visualize; a string of the query is modelled by <<"json", yAxes>> when  *)
(* it is the JSON text of a visualize and by <<"text", ...>> otherwise.    *)
(***************************************************************************)
Equation == "equation|a+b"

defaultVisualizes == << [yAxes |-> <<"count(id)">>] >>

VisualizeToJSON(visualize) == <<"json", visualize.yAxes>>

IsVisualizeJSON(raw) == raw[1] = "json"

VisualizeFromJSON(raw) == [yAxes |-> raw[2]]

EquationsEnabled(org) == "equations" \in org.features

VisualizeAllowed(visualize, org) ==
  EquationsEnabled(org) \/ ~Includes(visualize.yAxes, Equation)

\* every string of the key is the JSON of a visualize the organization may use
VisualizesParse(raws, org) ==
  \A i \in 1..Len(raws) :
    IsVisualizeJSON(raws[i]) /\ VisualizeAllowed(VisualizeFromJSON(raws[i]), org)

getVisualizesFromLocation(loc, org) ==
  IF Has(loc.query, "visualize") /\ VisualizesParse(loc.query["visualize"], org)
  THEN [i \in 1..Len(loc.query["visualize"]) |-> VisualizeFromJSON(loc.query["visualize"][i])]
  ELSE defaultVisualizes

updateLocationWithVisualizes(query, update) ==
  IF IsValue(update, "visualizes")
  THEN Put(query, "visualize",
           [i \in 1..Len(update["visualizes"].value) |->
              VisualizeToJSON(update["visualizes"].value[i])])
  ELSE IF IsNull(update, "visualizes") THEN Remove(query, "visualize")
  ELSE query

(***************************************************************************)
(* Sort bys.  A sort is written to the query as the string "field" when    *)
(* ascending and "-field" when descending; a string of the query is        *)
(* modelled by the sequence of its parts, <<"a">> or <<"-", "a">>.         *)
(***************************************************************************)
SortToString(sort) == IF sort.kind = "desc" THEN <<"-", sort.field>> ELSE <<sort.field>>

IsSortString(raw) ==
  \/ Len(raw) = 1 /\ raw[1] \notin {"-", ""}
  \/ Len(raw) = 2 /\ raw[1] = "-" /\ raw[2] \notin {"-", ""}

SortFromString(raw) ==
  IF Len(raw) = 2 THEN [field |-> raw[2], kind |-> "desc"]
  ELSE [field |-> raw[1], kind |-> "asc"]

SortsParse(raws) == \A i \in 1..Len(raws) : IsSortString(raws[i])

\* visualizes.flatMap(visualize => visualize.yAxes)
RECURSIVE FlatYAxes(_)
FlatYAxes(visualizes) ==
  IF visualizes = <<>> THEN <<>>
  ELSE Head(visualizes).yAxes \o FlatYAxes(Tail(visualizes))

defaultSortBys(mode, fields, yAxes) ==
  IF mode = SAMPLES
  THEN (IF fields # <<>> THEN << [field |-> fields[1], kind |-> "desc"] >> ELSE <<>>)
  ELSE (IF yAxes # <<>> THEN << [field |-> yAxes[1], kind |-> "desc"] >> ELSE <<>>)


getSortBysFromLocation(loc, mode, fields, groupBys, visualizes) ==
  IF Has(loc.query, "sort") /\ SortsParse(loc.query["sort"])
  THEN [i \in 1..Len(loc.query["sort"]) |-> SortFromString(loc.query["sort"][i])]
  ELSE defaultSortBys(mode, fields, FlatYAxes(visualizes))

updateLocationWithSortBys(query, update) ==
  IF IsValue(update, "sortBys")
  THEN Put(query, "sort",
           [i \in 1..Len(update["sortBys"].value) |-> SortToString(update["sortBys"].value[i])])
  ELSE IF IsNull(update, "sortBys") THEN Remove(query, "sort")
  ELSE query

(***************************************************************************)
(* The query keys each field owns.                                         *)
(***************************************************************************)
QueryKeys ==
  {"dataset", "field", "groupBy", "mode", "query", "sort", "visualize", "title", "id"}

KeyOf(f) ==
  CASE f = "dataset" -> "dataset"
    [] f = "fields" -> "field"
    [] f = "groupBys" -> "groupBy"
    [] f = "mode" -> "mode"
    [] f = "query" -> "query"
    [] f = "sortBys" -> "sort"
    [] f = "visualizes" -> "visualize"
    [] f = "title" -> "title"
    [] f = "id" -> "id"

(***************************************************************************)
(* Read path and write path.                                               *)
(***************************************************************************)
defaultPageParams ==
  [dataset |-> defaultDataset,
   fields |-> defaultFields,
   groupBys |-> defaultGroupBys,
   mode |-> defaultMode,
   query |-> defaultQuery,
   sortBys |-> defaultSortBys(defaultMode, defaultFields,
                              FlatYAxes(defaultVisualizes)),
   title |-> defaultTitle,
   id |-> defaultId,
   visualizes |-> defaultVisualizes]

\* mutant: the fields are read with the getter of the group bys
derivePageParams_FieldsFromGroupBys(loc, org) ==
  LET dataset == getDatasetFromLocation(loc)
      fields == getGroupBysFromLocation(loc)
      groupBys == getGroupBysFromLocation(loc)
      mode == getModeFromLocation(loc)
      query == getQueryFromLocation(loc)
      visualizes == getVisualizesFromLocation(loc, org)
      sortBys == getSortBysFromLocation(loc, mode, fields, groupBys, visualizes)
      title == getTitleFromLocation(loc)
      id == getIdFromLocation(loc)
  IN  [dataset |-> dataset, fields |-> fields, groupBys |-> groupBys, mode |-> mode,
       query |-> query, sortBys |-> sortBys, title |-> title, id |-> id,
       visualizes |-> visualizes]

\* mutant: the sort default ignores the derived mode, fields and visualizes
derivePageParams_SortFromDefaults(loc, org) ==
  LET dataset == getDatasetFromLocation(loc)
      fields == getFieldsFromLocation(loc)
      groupBys == getGroupBysFromLocation(loc)
      mode == getModeFromLocation(loc)
      query == getQueryFromLocation(loc)
      visualizes == getVisualizesFromLocation(loc, org)
      sortBys == getSortBysFromLocation(loc, defaultMode, defaultFields, defaultGroupBys,
                                        defaultVisualizes)
      title == getTitleFromLocation(loc)
      id == getIdFromLocation(loc)
  IN  [dataset |-> dataset, fields |-> fields, groupBys |-> groupBys, mode |-> mode,
       query |-> query, sortBys |-> sortBys, title |-> title, id |-> id,
       visualizes |-> visualizes]

\* the body of the useMemo of PageParamsProvider
derivePageParams(loc, org) ==
  LET dataset == getDatasetFromLocation(loc)
      fields == getFieldsFromLocation(loc)
      groupBys == getGroupBysFromLocation(loc)
      mode == getModeFromLocation(loc)
      query == getQueryFromLocation(loc)
      visualizes == getVisualizesFromLocation(loc, org)
      sortBys == getSortBysFromLocation(loc, mode, fields, groupBys, visualizes)
      title == getTitleFromLocation(loc)
      id == getIdFromLocation(loc)
  IN  [dataset |-> dataset, fields |-> fields, groupBys |-> groupBys, mode |-> mode,
       query |-> query, sortBys |-> sortBys, title |-> title, id |-> id,
       visualizes |-> visualizes]

\* mutant: the target starts from an empty query instead of a copy
newExploreTarget_FreshQuery(loc, update) ==
  LET q0 == EmptyQuery
      q1 == updateLocationWithDataset(q0, update)
      q2 == updateLocationWithFields(q1, update)
      q3 == updateLocationWithGroupBys(q2, update)
      q4 == updateLocationWithMode(q3, update)
      q5 == updateLocationWithQuery(q4, update)
      q6 == updateLocationWithSortBys(q5, update)
      q7 == updateLocationWithVisualizes(q6, update)
      q8 == updateLocationWithTitle(q7, update)
      q9 == updateLocationWithId(q8, update)
  IN  [loc EXCEPT !.query = q9]

\* mutant: the id of the update is never applied
newExploreTarget_SkipsId(loc, update) ==
  LET q0 == loc.query
      q1 == updateLocationWithDataset(q0, update)
      q2 == updateLocationWithFields(q1, update)
      q3 == updateLocationWithGroupBys(q2, update)
      q4 == updateLocationWithMode(q3, update)
      q5 == updateLocationWithQuery(q4, update)
      q6 == updateLocationWithSortBys(q5, update)
      q7 == updateLocationWithVisualizes(q6, update)
      q8 == updateLocationWithTitle(q7, update)
      q9 == q8
  IN  [loc EXCEPT !.query = q9]

\* mutant: written fields are appended to the fields of the location
newExploreTarget_MergesFields(loc, update) ==
  LET q0 == loc.query
      q1 == updateLocationWithDataset(q0, update)
      q2 == IF IsValue(update, "fields") /\ Has(q1, "field")
            THEN Put(q1, "field", q1["field"] \o update["fields"].value)
            ELSE updateLocationWithFields(q1, update)
      q3 == updateLocationWithGroupBys(q2, update)
      q4 == updateLocationWithMode(q3, update)
      q5 == updateLocationWithQuery(q4, update)
      q6 == updateLocationWithSortBys(q5, update)
      q7 == updateLocationWithVisualizes(q6, update)
      q8 == updateLocationWithTitle(q7, update)
      q9 == updateLocationWithId(q8, update)
  IN  [loc EXCEPT !.query = q9]

newExploreTarget(loc, update) ==
  LET q0 == loc.query
      q1 == updateLocationWithDataset(q0, update)
      q2 == updateLocationWithFields(q1, update)
      q3 == updateLocationWithGroupBys(q2, update)
      q4 == updateLocationWithMode(q3, update)
      q5 == updateLocationWithQuery(q4, update)
      q6 == updateLocationWithSortBys(q5, update)
      q7 == updateLocationWithVisualizes(q6, update)
      q8 == updateLocationWithTitle(q7, update)
      q9 == updateLocationWithId(q8, update)
  IN  [loc EXCEPT !.query = q9]

(***************************************************************************)
(* Inputs.                                                                 *)
(***************************************************************************)
Organizations == {[features |-> {}], [features |-> {"equations"}]}

Pathname == "/explore/traces/"

VisualizeArgs ==
  { << [yAxes |-> <<"count(a)">>] >>,
    << [yAxes |-> <<"avg(b)">>], [yAxes |-> <<Equation>>] >> }

SortArgs ==
  { << [field |-> "a", kind |-> "desc"] >>,
    << [field |-> "b", kind |-> "asc"], [field |-> "a", kind |-> "desc"] >> }

\* values a raw WritablePageParams object may carry for a field
UpdateValues(f) ==
  CASE f = "dataset" -> DiscoverDatasets
    [] f = "fields" -> {<<"a">>, <<"b", "a">>, <<>>}
    [] f = "groupBys" -> {<<"b", "">>, <<>>}
    [] f = "mode" -> Modes
    [] f = "query" -> {"q", ""}
    [] f = "sortBys" -> SortArgs \cup {<<>>}
    [] f = "visualizes" -> VisualizeArgs \cup {<<>>}
    [] f = "title" -> {"t"}
    [] f = "id" -> {"7"}

RECURSIVE UpdatesUpTo(_)
UpdatesUpTo(n) ==
  IF n = 0 THEN {EmptyUpdate}
  ELSE LET prev == UpdatesUpTo(n - 1)
       IN  prev \cup
           UNION { UNION { {Put(u, f, x) : x \in {Null} \cup {Val(v) : v \in UpdateValues(f)}}
                           : f \in Fields \ DOMAIN u }
                   : u \in prev }

Updates == UpdatesUpTo(MaxTouched)

\* strings a URL may hold under a key, parseable or not
RawValues(k) ==
  CASE k = "dataset" -> {"spans", "bogus"}
    [] k = "field" -> {<<"a">>, <<"b", "a">>}
    [] k = "groupBy" -> {<<"b", "">>, <<"a">>}
    [] k = "mode" -> {"aggregate", "samples", "bogus"}
    [] k = "query" -> {"q"}
    [] k = "sort" -> { << <<"-", "a">> >>, << <<"a">>, <<"-">> >> }
    [] k = "visualize" -> { << <<"json", <<"count(a)">> >> >>,
                            << <<"json", <<Equation>> >> >>,
                            << <<"text", <<"count(a)">> >> >> }
    [] k = "title" -> {"t"}
    [] k = "id" -> {"7"}

FullQuery ==
  [k \in QueryKeys |->
     CASE k = "dataset" -> "spansRpc"
       [] k = "field" -> <<"a", "b">>
       [] k = "groupBy" -> <<"", "b">>
       [] k = "mode" -> "aggregate"
       [] k = "query" -> "p"
       [] k = "sort" -> << <<"b">> >>
       [] k = "visualize" -> << <<"json", <<"avg(b)">> >> >>
       [] k = "title" -> "s"
       [] k = "id" -> "3"]

\* a URL in which no key parses to a value of its field
JunkQuery ==
  [k \in {"dataset", "mode", "sort", "visualize"} |->
     CASE k = "dataset" -> "bogus"
       [] k = "mode" -> "bogus"
       [] k = "sort" -> << <<"-">> >>
       [] k = "visualize" -> << <<"text", <<"{">> >> >>]

\* the queries that differ from q in at most one key
OneKeyVariants(q) ==
  {q} \cup UNION { {Put(q, k, v) : v \in RawValues(k)} \cup {Remove(q, k)} : k \in QueryKeys }

InputQueries == OneKeyVariants(EmptyQuery) \cup OneKeyVariants(FullQuery) \cup {JunkQuery}

\* lists a caller passes to the setters of the store
FieldArgs == {<<>>, <<"a">>, <<"b", "a">>, <<"a", "a">>}

CompanionArgs == {<<>>, <<"a">>, <<"a", "c">>, <<"c", "b", "c">>}

GroupByArgs == {<<>>, <<"", "">>, <<"b", "">>, <<"b", "a", "", "b">>}

\* bundles of several fields written through the raw callback of the store
StoreUpdates ==
  { Put(Put(EmptyUpdate, "query", Val("q")), "sortBys", Null),
    Put(Put(Put(EmptyUpdate, "mode", Val(AGGREGATE)), "groupBys", Val(<<"b", "">>)),
        "fields", Val(<<"a">>)),
    Put(Put(EmptyUpdate, "visualizes", Null), "dataset", Val("spans")) }

\* URLs the explore page is opened with
StoreQueries ==
  { EmptyQuery,
    [k \in {"field", "groupBy", "mode"} |->
       CASE k = "field" -> <<"a">>
         [] k = "groupBy" -> <<"b", "">>
         [] k = "mode" -> "aggregate"] }

(***************************************************************************)
(* State of the store.                                                     *)
(***************************************************************************)
\* the keys in which the router's location differs from the rendered location:
\* what earlier calls wrote since the render the callback was created in
StaleKeys(current, snapshot) ==
  {k \in DOMAIN current.query \cup DOMAIN snapshot.query :
     ~(k \in DOMAIN current.query /\ k \in DOMAIN snapshot.query
       /\ current.query[k] = snapshot.query[k])}

VARIABLES
  location,      \* the current location of the router
  organization,  \* the current organization
  rendered,      \* the location and organization the hooks read at the last render
  pageParams,    \* the value of PageParamsContext
  navCount,      \* number of calls of navigate
  lastCall,      \* the last call of a setter: its update, and what it closed over
  heap,          \* the location and query objects a call of newExploreTarget works on
  targetCall,    \* the call of newExploreTarget: its arguments and what it returned
  routeCall,     \* the call of findFirstRouteWithoutRouteParam
  selector,      \* FlamegraphThreadSelector: its props and what its memo computed
  spanDetail     \* SpanDetail: its props, its state and its fetches in flight

storeVars == <<location, organization, rendered, pageParams, navCount, lastCall>>

componentVars == <<heap, targetCall, routeCall, selector, spanDetail>>

vars == <<storeVars, componentVars>>

\* a component that is not mounted, a function that is not called
Idle == [pc |-> "idle"]

NoHeap == <<>>

NoArgs == [x \in {} |-> ""]

NoCall(loc, params) ==
  [seq |-> 0, setter |-> "none", update |-> EmptyUpdate, from |-> loc,
   params |-> params, args |-> NoArgs, stale |-> {}]

StoreInit(queries, organizations) ==
  /\ location \in {[pathname |-> Pathname, query |-> q] : q \in queries}
  /\ organization \in organizations
  /\ rendered = [location |-> location, organization |-> organization]
  /\ pageParams = derivePageParams(location, organization)
  /\ navCount = 0
  /\ lastCall = NoCall(location, pageParams)

\* the store before any call, on the empty URL
StoreIdle == StoreInit({EmptyQuery}, {[features |-> {}]})

InitFrom(queries) ==
  /\ StoreInit(queries, Organizations)
  /\ heap = NoHeap
  /\ targetCall = Idle
  /\ routeCall = Idle
  /\ selector = Idle
  /\ spanDetail = Idle

Init == InitFrom(StoreQueries)

(***************************************************************************)
(* PageParamsProvider: a render reads the location and the organization,   *)
(* and useMemo recomputes the parameters when either changed.              *)
(***************************************************************************)
\* mutant: the memo depends on the location only
MemoDepsChanged_LocationOnly(prev, loc, org) == prev.location # loc

MemoDepsChanged(prev, loc, org) == prev.location # loc \/ prev.organization # org

Render ==
  /\ rendered' = [location |-> location, organization |-> organization]
  /\ pageParams' = IF MemoDepsChanged(rendered, location, organization)
                   THEN derivePageParams(location, organization)
                   ELSE pageParams
  /\ UNCHANGED <<location, organization, navCount, lastCall>>
  /\ UNCHANGED componentVars

ChangeOrganization ==
  /\ organization' \in Organizations \ {organization}
  /\ UNCHANGED <<location, rendered, pageParams, navCount, lastCall>>
  /\ UNCHANGED componentVars

(***************************************************************************)
(* useSetExplorePageParams and the setters built on it.                    *)
(***************************************************************************)
navigate(target) ==
  /\ location' = target
  /\ navCount' = navCount + 1

\* mutant: one navigation per field of the update, each from the rendered location
setPageParams_PerField(setter, args, update) ==
  /\ \E f \in DOMAIN update :
       location' = newExploreTarget(rendered.location, [x \in {f} |-> update[x]])
  /\ navCount' = navCount + Cardinality(DOMAIN update)
  /\ lastCall' = [seq |-> lastCall.seq + 1, setter |-> setter, update |-> update,
                  from |-> rendered.location, params |-> pageParams, args |-> args,
                  stale |-> StaleKeys(location, rendered.location)]
  /\ UNCHANGED <<organization, rendered, pageParams>>
  /\ UNCHANGED componentVars

\* mutant: the target is computed from the router's location at the time of the call
setPageParams_FromCurrent(setter, args, update) ==
  /\ navigate(newExploreTarget(location, update))
  /\ lastCall' = [seq |-> lastCall.seq + 1, setter |-> setter, update |-> update,
                  from |-> rendered.location, params |-> pageParams, args |-> args,
                  stale |-> StaleKeys(location, rendered.location)]
  /\ UNCHANGED <<organization, rendered, pageParams>>
  /\ UNCHANGED componentVars

\* the callback of useSetExplorePageParams, closed over the rendered location
setPageParams(setter, args, update) ==
  /\ navigate(newExploreTarget(rendered.location, update))
  /\ lastCall' = [seq |-> lastCall.seq + 1, setter |-> setter, update |-> update,
                  from |-> rendered.location, params |-> pageParams, args |-> args,
                  stale |-> StaleKeys(location, rendered.location)]
  /\ UNCHANGED <<organization, rendered, pageParams>>
  /\ UNCHANGED componentVars

SetExplorePageParams(update) == setPageParams("setPageParams", NoArgs, update)

SetExploreFields(fields) ==
  setPageParams("setFields", [fields |-> fields], Put(EmptyUpdate, "fields", Val(fields)))

\* mutant: a call without a mode clears the mode
SetExploreGroupBys_ClearsMode(groupBys) ==
  setPageParams("setGroupBys", [groupBys |-> groupBys],
                Put(Put(EmptyUpdate, "groupBys", Val(groupBys)), "mode", Null))

SetExploreGroupBys(groupBys) ==
  setPageParams("setGroupBys", [groupBys |-> groupBys],
                Put(EmptyUpdate, "groupBys", Val(groupBys)))

SetExploreGroupBysMode(groupBys, mode) ==
  setPageParams("setGroupBys", [groupBys |-> groupBys, mode |-> mode],
                Put(Put(EmptyUpdate, "groupBys", Val(groupBys)), "mode", Val(mode)))

\* mutant: a group by is pushed even when the fields already include it
RECURSIVE PushGroupBys_NoIncludes(_, _)
PushGroupBys_NoIncludes(fields, groupBys) ==
  IF groupBys = <<>> THEN fields
  ELSE PushGroupBys_NoIncludes(IF Head(groupBys) # ""
                               THEN Append(fields, Head(groupBys))
                               ELSE fields,
                               Tail(groupBys))

\* the loop of useSetExploreMode that carries the group bys over to the fields
RECURSIVE PushGroupBys(_, _)
PushGroupBys(fields, groupBys) ==
  IF groupBys = <<>> THEN fields
  ELSE PushGroupBys(IF Head(groupBys) # "" /\ ~Includes(fields, Head(groupBys))
                    THEN Append(fields, Head(groupBys))
                    ELSE fields,
                    Tail(groupBys))

SomeGroupBy(groupBys) == \E i \in 1..Len(groupBys) : groupBys[i] # ""

\* mutant: the fields are written on every change of the mode
ModeUpdate_AlwaysFields(params, mode) ==
  Put(Put(EmptyUpdate, "mode", Val(mode)),
      "fields", Val(PushGroupBys(params.fields, params.groupBys)))

ModeUpdate(params, mode) ==
  IF mode = SAMPLES /\ SomeGroupBy(params.groupBys)
  THEN Put(Put(EmptyUpdate, "mode", Val(mode)),
           "fields", Val(PushGroupBys(params.fields, params.groupBys)))
  ELSE Put(EmptyUpdate, "mode", Val(mode))

SetExploreMode(mode) ==
  setPageParams("setMode", [mode |-> mode], ModeUpdate(pageParams, mode))

SetExploreQuery(query) ==
  setPageParams("setQuery", [query |-> query], Put(EmptyUpdate, "query", Val(query)))

SetExploreSortBys(sortBys) ==
  setPageParams("setSortBys", [sortBys |-> sortBys],
                Put(EmptyUpdate, "sortBys", Val(sortBys)))

\* mutant: the companion fields are not filtered against the current fields
NewFields_NoFilter(params, fields) == fields

\* fields?.filter(field => !pageParams.fields.includes(field)) || []
NewFields(params, fields) ==
  LET Absent(field) == ~Includes(params.fields, field)
  IN  SelectSeq(fields, Absent)

VisualizesUpdate(params, visualizes, newFields) ==
  IF Len(newFields) > 0
  THEN Put(Put(EmptyUpdate, "visualizes", Val(visualizes)),
           "fields", Val(params.fields \o newFields))
  ELSE Put(EmptyUpdate, "visualizes", Val(visualizes))

SetExploreVisualizes(visualizes) ==
  setPageParams("setVisualizes", [visualizes |-> visualizes],
                VisualizesUpdate(pageParams, visualizes, <<>>))

SetExploreVisualizesFields(visualizes, fields) ==
  setPageParams("setVisualizes", [visualizes |-> visualizes, fields |-> fields],
                VisualizesUpdate(pageParams, visualizes, NewFields(pageParams, fields)))

SetExploreTitle(title) ==
  setPageParams("setTitle", [title |-> title], Put(EmptyUpdate, "title", Val(title)))

SetExploreId(id) ==
  setPageParams("setId", [id |-> id], Put(EmptyUpdate, "id", Val(id)))

CallPageParams == navCount < MaxNav /\ \E update \in StoreUpdates : SetExplorePageParams(update)

CallFields == navCount < MaxNav /\ \E fields \in FieldArgs : SetExploreFields(fields)

CallGroupBys == navCount < MaxNav /\ \E groupBys \in GroupByArgs : SetExploreGroupBys(groupBys)

CallGroupBysMode ==
  navCount < MaxNav /\ \E groupBys \in GroupByArgs, mode \in Modes : SetExploreGroupBysMode(groupBys, mode)

CallMode == navCount < MaxNav /\ \E mode \in Modes : SetExploreMode(mode)

CallQuery == navCount < MaxNav /\ SetExploreQuery("q")

CallSortBys == navCount < MaxNav /\ \E sortBys \in SortArgs : SetExploreSortBys(sortBys)

CallVisualizes ==
  navCount < MaxNav /\ \E visualizes \in VisualizeArgs : SetExploreVisualizes(visualizes)

CallVisualizesFields ==
  /\ navCount < MaxNav
  /\ \E visualizes \in VisualizeArgs, fields \in CompanionArgs :
       SetExploreVisualizesFields(visualizes, fields)

CallTitle == navCount < MaxNav /\ SetExploreTitle("t")

CallId == navCount < MaxNav /\ SetExploreId("7")

Next ==
  \/ Render
  \/ ChangeOrganization
  \/ CallPageParams
  \/ CallFields
  \/ CallGroupBys
  \/ CallGroupBysMode
  \/ CallMode
  \/ CallQuery
  \/ CallSortBys
  \/ CallVisualizes
  \/ CallVisualizesFields
  \/ CallTitle
  \/ CallId

Spec == Init /\ [][Next]_vars

(***************************************************************************)
(* newExploreTarget as a function: one raw update applied to an arbitrary  *)
(* location, followed by the render that derives the parameters from it.   *)
(***************************************************************************)
TargetInit == InitFrom(InputQueries)

ApplyUpdate == navCount = 0 /\ \E update \in Updates : SetExplorePageParams(update)

TargetNext == ApplyUpdate \/ Render

SpecTarget == TargetInit /\ [][TargetNext]_vars

(***************************************************************************)
(* newExploreTarget on objects: locations and queries live in a heap, a    *)
(* location object refers to its query object, and the codecs assign to    *)
(* the keys of the query object of the location they are handed.           *)
(***************************************************************************)
InputRef == 1

InputQueryRef == 2

HeapOf(query) ==
  [r \in {InputRef, InputQueryRef} |->
     IF r = InputRef THEN [pathname |-> Pathname, query |-> InputQueryRef] ELSE query]

Alloc(h) == Cardinality(DOMAIN h) + 1

Extend(h, r, object) == [x \in DOMAIN h \cup {r} |-> IF x = r THEN object ELSE h[x]]

\* the location value an object of the heap stands for
Deref(h, locRef) == [h[locRef] EXCEPT !.query = h[h[locRef].query]]

\* mutant: {...location}, the target shares the query object of the location
CloneLocation_Shallow(h, locRef) ==
  LET targetRef == Alloc(h)
  IN  [heap |-> Extend(h, targetRef, h[locRef]), target |-> targetRef]

\* {...location, query: {...location.query}}
CloneLocation(h, locRef) ==
  LET queryRef == Alloc(h)
      h1 == Extend(h, queryRef, h[h[locRef].query])
      targetRef == Alloc(h1)
  IN  [heap |-> Extend(h1, targetRef, [h[locRef] EXCEPT !.query = queryRef]),
       target |-> targetRef]

\* the body of newExploreTarget: clone, then let every codec write into the clone
newExploreTargetObject(h, locRef, update) ==
  LET cloned == CloneLocation(h, locRef)
      queryRef == cloned.heap[cloned.target].query
      written == newExploreTarget(Deref(cloned.heap, cloned.target), update).query
  IN  [heap |-> [cloned.heap EXCEPT ![queryRef] = written], target |-> cloned.target]

CallNewExploreTarget ==
  /\ targetCall.pc = "ready"
  /\ \E update \in Updates :
       LET returned == newExploreTargetObject(heap, InputRef, update)
       IN  /\ heap' = returned.heap
           /\ targetCall' = [pc |-> "returned", update |-> update, before |-> heap,
                             target |-> returned.target]
  /\ UNCHANGED <<storeVars, routeCall, selector, spanDetail>>

CloneInit ==
  /\ StoreIdle
  /\ heap \in {HeapOf(q) : q \in InputQueries}
  /\ targetCall = [pc |-> "ready"]
  /\ routeCall = Idle
  /\ selector = Idle
  /\ spanDetail = Idle

CloneNext == CallNewExploreTarget

SpecClone == CloneInit /\ [][CloneNext]_vars

(***************************************************************************)
(* findFirstRouteWithoutRouteParam.  A route is an object: id stands for   *)
(* its identity, path is missing when the route has none, and a path is    *)
(* the sequence of its parts, ":" being the mark of a route param.         *)
(* An optional argument or result is a set of at most one element.         *)
(***************************************************************************)
PlainRoutes ==
  { [id |-> 1],
    [id |-> 2, path |-> <<>>],
    [id |-> 3, path |-> <<"settings/">>],
    [id |-> 4, path |-> <<":", "orgId/">>],
    [id |-> 5, path |-> <<"settings/">>],
    [id |-> 6, path |-> <<"api-keys/", ":", "apiKey/">>] }

RECURSIVE RouteLists(_)
RouteLists(n) ==
  IF n = 0 THEN {<<>>}
  ELSE LET shorter == RouteLists(n - 1)
       IN  shorter \cup {Append(l, r) : l \in shorter, r \in PlainRoutes}

\* routes.indexOf(route), counted from 0, -1 when the object is not in the list
IndexOf(routes, route) ==
  IF \E i \in 1..Len(routes) : routes[i].id = route.id
  THEN (CHOOSE i \in 1..Len(routes) :
          routes[i].id = route.id /\ \A j \in 1..(i - 1) : routes[j].id # route.id) - 1
  ELSE -1

\* !!path
Truthy(route) == "path" \in DOMAIN route /\ route.path # <<>>

\* !path?.includes(':')
NoRouteParam(route) == "path" \notin DOMAIN route \/ ~Includes(route.path, ":")

\* mutant: the search starts behind the given route
findFirstRouteWithoutRouteParam_BehindRoute(routes, route) ==
  LET routeIndex == IF route = {} THEN -1 ELSE IndexOf(routes, CHOOSE r \in route : TRUE)
      routesToSearch == IF route # {} /\ routeIndex > -1
                        THEN SubSeq(routes, routeIndex + 2, Len(routes))
                        ELSE routes
      withPath == SelectSeq(routesToSearch, Truthy)
      found == SelectSeq(withPath, NoRouteParam)
  IN  IF found # <<>> THEN {Head(found)} ELSE route

findFirstRouteWithoutRouteParam(routes, route) ==
  LET routeIndex == IF route = {} THEN -1 ELSE IndexOf(routes, CHOOSE r \in route : TRUE)
      routesToSearch == IF route # {} /\ routeIndex > -1
                        THEN SubSeq(routes, routeIndex + 1, Len(routes))
                        ELSE routes
      withPath == SelectSeq(routesToSearch, Truthy)
      found == SelectSeq(withPath, NoRouteParam)
  IN  IF found # <<>> THEN {Head(found)} ELSE route

CallFindFirstRoute ==
  /\ routeCall.pc = "ready"
  /\ routeCall' = [pc |-> "returned", routes |-> routeCall.routes, route |-> routeCall.route,
                   result |-> findFirstRouteWithoutRouteParam(routeCall.routes,
                                                              routeCall.route)]
  /\ UNCHANGED <<storeVars, heap, targetCall, selector, spanDetail>>

RoutesInit ==
  /\ StoreIdle
  /\ heap = NoHeap
  /\ targetCall = Idle
  /\ routeCall \in {[pc |-> "ready", routes |-> l, route |-> r] :
                      l \in RouteLists(MaxRoutes),
                      r \in {{}} \cup {{x} : x \in PlainRoutes}}
  /\ selector = Idle
  /\ spanDetail = Idle

RoutesNext == CallFindFirstRoute

SpecRoutes == RoutesInit /\ [][RoutesNext]_vars

(***************************************************************************)
(* FlamegraphThreadSelector.  A profile carries its threadId, its name     *)
(* ("" when it has none) and the length of its rawWeights.  An optional    *)
(* number (threadId, activeProfileIndex, activeThreadId) is a set of at    *)
(* most one number.  Names compare as strings do: by their place in Names. *)
(***************************************************************************)
Names == <<"a", "b">>

Profiles ==
  { [threadId |-> 0, name |-> "", rawWeights |-> 1],
    [threadId |-> 1, name |-> "", rawWeights |-> 0],
    [threadId |-> 2, name |-> "a", rawWeights |-> 1],
    [threadId |-> 3, name |-> "a", rawWeights |-> 0],
    [threadId |-> 1, name |-> "b", rawWeights |-> 1] }

RECURSIVE ProfileLists(_)
ProfileLists(n) ==
  IF n = 0 THEN {<<>>}
  ELSE LET shorter == ProfileLists(n - 1)
       IN  shorter \cup {Append(l, x) : l \in shorter, x \in Profiles}

ProfileGroups ==
  {[profiles |-> l, activeProfileIndex |-> i] :
     l \in ProfileLists(MaxProfiles),
     i \in {{}} \cup {{k} : k \in 0..MaxProfiles}}

\* undefined, the thread ids of Profiles, and 4, which no profile has
ThreadIdProps == {{}} \cup {{n} : n \in 0..4}

\* a.name > b.name
NameGreater(a, b) ==
  \E i, j \in 1..Len(Names) : Names[i] = a /\ Names[j] = b /\ i > j

\* profileGroup.profiles[index], nothing when the index is undefined or off the list
ProfileAt(profileGroup, index) ==
  {profileGroup.profiles[k + 1] : k \in {i \in index : i + 1 \in 1..Len(profileGroup.profiles)}}

activeThreadId(profileGroup) ==
  IF profileGroup.activeProfileIndex # {}
  THEN {x.threadId : x \in ProfileAt(profileGroup, profileGroup.activeProfileIndex)}
  ELSE {}

fallbackThreadId(profileGroup) ==
  LET at == ProfileAt(profileGroup, profileGroup.activeProfileIndex)
  IN  IF at = {} THEN 0 ELSE (CHOOSE x \in at : TRUE).threadId

\* mutant: a profile without a name goes first
compareProfiles_UnnamedFirst(active, a, b) ==
  IF active # {} /\ {a.threadId} = active THEN -1
  ELSE IF active # {} /\ {b.threadId} = active THEN 1
  ELSE IF b.name = "" /\ a.name = "" THEN (IF a.threadId > b.threadId THEN 1 ELSE -1)
  ELSE IF b.name = "" THEN 1
  ELSE IF a.name = "" THEN -1
  ELSE IF NameGreater(a.name, b.name) THEN 1 ELSE -1

compareProfiles(active, a, b) ==
  IF active # {} /\ {a.threadId} = active THEN -1
  ELSE IF active # {} /\ {b.threadId} = active THEN 1
  ELSE IF b.name = "" /\ a.name = "" THEN (IF a.threadId > b.threadId THEN 1 ELSE -1)
  ELSE IF b.name = "" THEN -1
  ELSE IF a.name = "" THEN 1
  ELSE IF NameGreater(a.name, b.name) THEN 1 ELSE -1

RECURSIVE Arrangements(_, _)
Arrangements(profiles, indices) ==
  IF indices = {} THEN {<<>>}
  ELSE UNION {{<<profiles[i]>> \o rest : rest \in Arrangements(profiles, indices \ {i})} :
                i \in indices}

\* [...profiles].sort(compareProfiles(active)).  The comparator never answers 0,
\* so two profiles it cannot tell apart are "less" both ways and the sort may
\* leave them in either order: every arrangement in which each profile is
\* "less" than the ones behind it is a result the sort can produce.
SortedProfiles(profiles, active) ==
  {l \in Arrangements(profiles, 1..Len(profiles)) :
     \A i, j \in 1..Len(l) : i < j => compareProfiles(active, l[i], l[j]) < 0}

\* mutant: the call is made even when the fallback is the thread id already set
SanityCheck_NoEqualTest(profileGroup, threadId) ==
  IF Len(profileGroup.profiles) > 0 /\ threadId # {}
  THEN IF \E i \in 1..Len(profileGroup.profiles) :
            {profileGroup.profiles[i].threadId} = threadId
       THEN <<>>
       ELSE <<fallbackThreadId(profileGroup)>>
  ELSE <<>>

\* the calls of onThreadIdChange the sanity check makes
SanityCheck(profileGroup, threadId) ==
  IF Len(profileGroup.profiles) > 0 /\ threadId # {}
  THEN IF \E i \in 1..Len(profileGroup.profiles) :
            {profileGroup.profiles[i].threadId} = threadId
       THEN <<>>
       ELSE IF {fallbackThreadId(profileGroup)} # threadId
            THEN <<fallbackThreadId(profileGroup)>>
            ELSE <<>>
  ELSE <<>>

Option(profile) ==
  [label |-> IF profile.name # "" THEN [name |-> profile.name]
             ELSE [tid |-> profile.threadId],
   value |-> profile.threadId,
   samples |-> profile.rawWeights + 1]

HasWeights(profile) == profile.rawWeights > 0

Options(profiles) == [k \in 1..Len(profiles) |-> Option(profiles[k])]

Mounted(profileGroup, threadId) ==
  [pc |-> "dirty", profileGroup |-> profileGroup, threadId |-> threadId,
   sanityCalls |-> <<>>, captured |-> 0, sortedProfiles |-> <<>>,
   profileOptions |-> <<>>, emptyProfileOptions |-> <<>>, requested |-> {}]

\* the body of the memo: the sanity check, the sort, the two lists of options
RunMemo ==
  /\ selector.pc = "dirty"
  /\ LET calls == SanityCheck(selector.profileGroup, selector.threadId)
     IN  \E sorted \in SortedProfiles(selector.profileGroup.profiles,
                                      activeThreadId(selector.profileGroup)) :
           selector' = [selector EXCEPT
                          !.pc = "rendered",
                          !.sanityCalls = calls,
                          !.captured = Len(calls),
                          !.sortedProfiles = sorted,
                          !.profileOptions = Options(SelectSeq(sorted, HasWeights)),
                          !.emptyProfileOptions = Options(SelectSeq(sorted, LAMBDA x : ~HasWeights(x))),
                          !.requested = IF calls # <<>> THEN {calls[1]} ELSE {}]
  /\ UNCHANGED <<storeVars, heap, targetCall, routeCall, spanDetail>>

\* handleChange: the user picks one of the options shown
HandleChange ==
  /\ selector.pc = "rendered"
  /\ \E list \in {selector.profileOptions, selector.emptyProfileOptions} :
       \E k \in 1..Len(list) :
         selector' = [selector EXCEPT !.requested = {list[k].value}]
  /\ UNCHANGED <<storeVars, heap, targetCall, routeCall, spanDetail>>

\* the owner of the thread id takes the value onThreadIdChange was called with
\* and hands it back as the threadId prop; the memo runs again when it differs
ThreadIdChanged ==
  /\ selector.pc = "rendered"
  /\ selector.requested # {}
  /\ selector' = [selector EXCEPT
                    !.threadId = selector.requested,
                    !.requested = {},
                    !.pc = IF selector.requested = selector.threadId
                           THEN "rendered" ELSE "dirty"]
  /\ UNCHANGED <<storeVars, heap, targetCall, routeCall, spanDetail>>

SelectorInit ==
  /\ StoreIdle
  /\ heap = NoHeap
  /\ targetCall = Idle
  /\ routeCall = Idle
  /\ selector \in {Mounted(g, t) : g \in ProfileGroups, t \in ThreadIdProps}
  /\ spanDetail = Idle

SelectorNext ==
  \/ RunMemo
  \/ HandleChange
  \/ ThreadIdChanged

SpecSelector == SelectorInit /\ [][SelectorNext]_vars

(***************************************************************************)
(* SpanDetail, in its two versions: "isRoot" (spanDetail.tsx: one fetch    *)
(* for the span unless it is the root, the slug kept in state.eventSlug)   *)
(* and "parent" (the earlier one: a fetch for the parent span when the     *)
(* span has one, kept in state.parentEventSlug, and a second fetch whose   *)
(* response is only logged).  eventSlug stands for the slug of either.     *)
(* A response is a record; its data key may be missing; a value of data    *)
(* carries its type and, for what can be indexed, its items.               *)
(***************************************************************************)
Nullish == [null |-> TRUE]

Results ==
  { [id |-> "e1", project |-> "p1"],
    [id |-> "e2"],
    Nullish }

DataValues ==
  { [type |-> "null", items |-> <<>>],
    [type |-> "string", items |-> <<>>],
    [type |-> "string", items |-> <<[char |-> "x"]>>],
    [type |-> "object", items |-> <<>>],
    [type |-> "array", items |-> <<>>],
    [type |-> "array", items |-> <<[id |-> "e1", project |-> "p1"], [id |-> "e2"]>>] }
  \cup {[type |-> "array", items |-> <<r>>] : r \in Results}

Responses ==
  {Nullish, [status |-> 200]} \cup {[status |-> 200, data |-> d] : d \in DataValues}

\* !response.data
NoData(response) ==
  \/ "data" \notin DOMAIN response
  \/ response.data.type = "null"
  \/ response.data.type = "string" /\ response.data.items = <<>>

\* response.data.length <= 0 (an object without a length is not <= 0)
LengthNotPositive(data) == data.type \in {"array", "string"} /\ Len(data.items) <= 0

\* response.data[0]
First(data) == IF data.items = <<>> THEN Nullish ELSE data.items[1]

Property(object, key) == IF key \in DOMAIN object THEN object[key] ELSE "undefined"

\* the slug is the project's name and the event's id, joined by ":"
generateEventSlug(eventData) ==
  <<Property(eventData, "project"), ":", Property(eventData, "id")>>

Returned == [threw |-> FALSE, setState |-> {}]

Threw == [threw |-> TRUE, setState |-> {}]

\* mutant: the Array.isArray test is missing
SlugHandler_NoArrayTest(response) ==
  IF response = Nullish THEN Threw
  ELSE IF NoData(response) \/ LengthNotPositive(response.data) THEN Returned
  ELSE LET result == First(response.data)
       IN  IF result = Nullish THEN Threw
           ELSE [threw |-> FALSE, setState |-> {generateEventSlug(result)}]

\* the then handler of the fetch that sets the slug
SlugHandler(response) ==
  IF response = Nullish THEN Threw
  ELSE IF NoData(response) \/ response.data.type # "array" \/ LengthNotPositive(response.data)
       THEN Returned
       ELSE LET result == First(response.data)
            IN  IF result = Nullish THEN Threw
                ELSE [threw |-> FALSE, setState |-> {generateEventSlug(result)}]

FetchNames == {"span", "parent", "log"}

NotIssued == [phase |-> "none", rejected |-> FALSE, response |-> {}, threw |-> FALSE]

\* the fetch whose response sets the slug
SlugFetch(version) == IF version = "isRoot" THEN "span" ELSE "parent"

\* the fetches componentDidMount issues
Issued(component) ==
  IF component.version = "isRoot"
  THEN IF component.isRoot THEN {} ELSE {"span"}
  ELSE IF component.hasParent THEN {"parent", "log"} ELSE {"log"}

Constructed(version, isRoot, hasParent) ==
  [pc |-> "constructed", version |-> version, isRoot |-> isRoot, hasParent |-> hasParent,
   eventSlug |-> {}, fetches |-> [n \in FetchNames |-> NotIssued],
   logged |-> 0, errors |-> 0]

componentDidMount ==
  /\ spanDetail.pc = "constructed"
  /\ spanDetail' = [spanDetail EXCEPT
                      !.pc = "mounted",
                      !.fetches = [n \in FetchNames |->
                                     IF n \in Issued(spanDetail)
                                     THEN [NotIssued EXCEPT !.phase = "pending"]
                                     ELSE NotIssued]]
  /\ UNCHANGED <<storeVars, heap, targetCall, routeCall, selector>>

\* api.requestPromise settles: it rejects, or resolves with a response
fetchSpan ==
  /\ \E n \in FetchNames :
       /\ spanDetail.fetches[n].phase = "pending"
       /\ \/ spanDetail' = [spanDetail EXCEPT !.fetches[n].phase = "settled",
                                              !.fetches[n].rejected = TRUE]
          \/ \E response \in Responses :
               spanDetail' = [spanDetail EXCEPT !.fetches[n].phase = "settled",
                                                !.fetches[n].response = {response}]
  /\ UNCHANGED <<storeVars, heap, targetCall, routeCall, selector>>

\* .then(response => ...): skipped when the fetch rejected
ThenHandler ==
  /\ \E n \in FetchNames :
       LET fetch == spanDetail.fetches[n]
       IN  /\ fetch.phase = "settled"
           /\ IF fetch.rejected
              THEN spanDetail' = [spanDetail EXCEPT !.fetches[n].phase = "then"]
              ELSE IF n = "log"
              THEN spanDetail' = [spanDetail EXCEPT !.fetches[n].phase = "then",
                                                    !.logged = @ + 1]
              ELSE LET ran == SlugHandler(CHOOSE r \in fetch.response : TRUE)
                   IN  spanDetail' = [spanDetail EXCEPT
                                        !.fetches[n].phase = "then",
                                        !.fetches[n].threw = ran.threw,
                                        !.eventSlug = IF ran.setState = {} THEN @
                                                      ELSE ran.setState]
  /\ UNCHANGED <<storeVars, heap, targetCall, routeCall, selector>>

\* .catch(_error => {}): takes the rejection or the thrown error and does nothing
CatchHandler ==
  /\ \E n \in FetchNames :
       /\ spanDetail.fetches[n].phase = "then"
       /\ spanDetail' = [spanDetail EXCEPT !.fetches[n].phase = "done"]
  /\ UNCHANGED <<storeVars, heap, targetCall, routeCall, selector>>

\* renderTraversalButton / renderParentButton: the button, or nothing
renderTraversalButton(component) ==
  IF component.eventSlug = {} \/ component.eventSlug = {<<>>}
  THEN {}
  ELSE {[button |-> IF component.version = "isRoot" THEN "Open span"
                    ELSE "Go to parent transaction",
         eventSlug |-> slug] : slug \in component.eventSlug}

SpanInit ==
  /\ StoreIdle
  /\ heap = NoHeap
  /\ targetCall = Idle
  /\ routeCall = Idle
  /\ selector = Idle
  /\ spanDetail \in {Constructed("isRoot", isRoot, FALSE) : isRoot \in BOOLEAN}
                    \cup {Constructed("parent", FALSE, hasParent) : hasParent \in BOOLEAN}

SpanNext ==
  \/ componentDidMount
  \/ fetchSpan
  \/ ThenHandler
  \/ CatchHandler

SpecSpan == SpanInit /\ [][SpanNext]_vars

(***************************************************************************)
(* Properties of newExploreTarget and of the derivation.                   *)
(***************************************************************************)
\* the key k is the same in both queries: present in both with one value, or in neither
SameKey(q1, q2, k) == Has(q1, k) = Has(q2, k) /\ (Has(q1, k) => q1[k] = q2[k])

Called == lastCall.seq > 0

OnlyField(update, f) == [x \in {f} |-> update[x]]

\* C1: newExploreTarget leaves the query keys of every field that is
\* undefined in the update as they are in the input location.
C1_UndefinedFieldsUntouched ==
  Called =>
    \A f \in Fields :
      IsUndefined(lastCall.update, f) =>
        SameKey(location.query, lastCall.from.query, KeyOf(f))

C1_Witness ==
  /\ Called
  /\ lastCall.from.query = FullQuery
  /\ DOMAIN lastCall.update = {"query"}
  /\ location.query = Put(FullQuery, "query", "q")

\* C2: newExploreTarget(location, {f: null}) has none of f's query keys and
\* every other key as in the input location.
C2_NullClearsExactlyTheField ==
  Called =>
    \A f \in Fields :
      (DOMAIN lastCall.update = {f} /\ IsNull(lastCall.update, f)) =>
        /\ ~Has(location.query, KeyOf(f))
        /\ \A k \in QueryKeys \ {KeyOf(f)} :
             SameKey(location.query, lastCall.from.query, k)

C2_Witness ==
  /\ Called
  /\ lastCall.from.query = FullQuery
  /\ DOMAIN lastCall.update = {"id"}
  /\ IsNull(lastCall.update, "id")
  /\ DOMAIN location.query = QueryKeys \ {"id"}

\* C3: applying an update to the location it produced changes nothing:
\* newExploreTarget(newExploreTarget(L, u), u) has the query of newExploreTarget(L, u).
C3_UpdateIdempotent ==
  Called => newExploreTarget(location, lastCall.update).query = location.query

C3_Witness ==
  /\ Called
  /\ lastCall.from.query = FullQuery
  /\ IsValue(lastCall.update, "fields")
  /\ IsNull(lastCall.update, "sortBys")
  /\ location.query # lastCall.from.query
  /\ newExploreTarget(location, lastCall.update).query = location.query

\* a value of field f that the codec of f can represent for the organization
ValidValue(f, v, org) ==
  f = "visualizes" => \A i \in 1..Len(v) : VisualizeAllowed(v[i], org)

RenderedCurrent == rendered = [location |-> location, organization |-> organization]

Parses(q, f, org) ==
  /\ Has(q, KeyOf(f))
  /\ CASE f = "dataset" -> q["dataset"] \in DiscoverDatasets
       [] f = "mode" -> q["mode"] \in Modes
       [] f = "sortBys" -> SortsParse(q["sort"])
       [] f = "visualizes" -> VisualizesParse(q["visualize"], org)
       [] OTHER -> TRUE

DefaultOf(f, params) ==
  IF f = "sortBys"
  THEN defaultSortBys(params.mode, params.fields, FlatYAxes(params.visualizes))
  ELSE defaultPageParams[f]

Complete(params) ==
  /\ DOMAIN params = Fields
  /\ params.mode \in Modes
  /\ params.dataset \in DiscoverDatasets \cup {Undefined}
  /\ \A i \in 1..Len(params.sortBys) : params.sortBys[i].kind \in {"asc", "desc"}
  /\ \A i \in 1..Len(params.visualizes) : DOMAIN params.visualizes[i] = {"yAxes"}

\* C5: the derivation always yields complete parameters, and a field whose
\* keys are missing or do not parse has its default (for sortBys, the
\* default of the derived mode, fields and visualizes).
C5_DerivationTotal ==
  /\ Complete(pageParams)
  /\ \A f \in Fields :
       ~Parses(rendered.location.query, f, rendered.organization) =>
         pageParams[f] = DefaultOf(f, pageParams)

C5_Witness ==
  /\ Called
  /\ RenderedCurrent
  /\ Has(location.query, "mode") /\ location.query["mode"] = "aggregate"
  /\ Has(location.query, "sort") /\ ~SortsParse(location.query["sort"])
  /\ ~Has(location.query, "visualize")
  /\ pageParams.mode = AGGREGATE
  /\ pageParams.visualizes = defaultVisualizes
  /\ pageParams.sortBys = << [field |-> "count(id)", kind |-> "desc"] >>

(***************************************************************************)
(* Properties of the setters of the store.                                 *)
(***************************************************************************)
\* the index of the first occurrence of x in s
FirstIndex(s, x) == CHOOSE i \in 1..Len(s) : s[i] = x /\ \A j \in 1..(i - 1) : s[j] # x

\* C6: switching to SAMPLES from AGGREGATE with a non-empty group by writes
\* mode and fields only; the fields are the current fields followed by each
\* non-empty group by that is not yet listed, once, in the order of the group bys.
C6_ModeSwitchMergesGroupBys ==
  ( /\ Called
    /\ lastCall.setter = "setMode"
    /\ lastCall.args.mode = SAMPLES
    /\ lastCall.params.mode = AGGREGATE
    /\ \E k \in 1..Len(lastCall.params.groupBys) : lastCall.params.groupBys[k] # "" ) =>
    LET cur == lastCall.params.fields
        gbs == lastCall.params.groupBys
        u == lastCall.update
        n == Len(cur)
    IN  /\ DOMAIN u = {"mode", "fields"}
        /\ u["mode"] = Val(SAMPLES)
        /\ IsValue(u, "fields")
        /\ LET w == u["fields"].value
           IN  /\ Len(w) >= n
               /\ SubSeq(w, 1, n) = cur
               /\ \A i \in (n + 1)..Len(w) :
                    w[i] # "" /\ Includes(gbs, w[i]) /\ ~Includes(cur, w[i])
               /\ \A i, j \in (n + 1)..Len(w) :
                    i < j => w[i] # w[j] /\ FirstIndex(gbs, w[i]) < FirstIndex(gbs, w[j])
               /\ \A k \in 1..Len(gbs) :
                    (gbs[k] # "" /\ ~Includes(cur, gbs[k])) =>
                      \E i \in (n + 1)..Len(w) : w[i] = gbs[k]
        /\ SameKey(location.query, lastCall.from.query, "groupBy")

C6_Witness ==
  /\ Called
  /\ lastCall.setter = "setMode"
  /\ lastCall.params.mode = AGGREGATE
  /\ lastCall.params.fields = <<"a">>
  /\ lastCall.params.groupBys = <<"b", "">>
  /\ IsValue(lastCall.update, "fields")
  /\ lastCall.update["fields"].value = <<"a", "b">>
  /\ DOMAIN location.query = {"field", "groupBy", "mode"}
  /\ location.query["field"] = <<"a", "b">>
  /\ location.query["groupBy"] = <<"b", "">>
  /\ location.query["mode"] = SAMPLES

\* the members of fields that current does not include, in the order of fields
RECURSIVE AbsentMembers(_, _)
AbsentMembers(fields, current) ==
  IF fields = <<>> THEN <<>>
  ELSE (IF Includes(current, Head(fields)) THEN <<>> ELSE <<Head(fields)>>)
       \o AbsentMembers(Tail(fields), current)

\* C7: the visualize setter called with V and companion fields F writes
\* visualizes = V and, when F has a field the current fields lack, fields =
\* the current fields followed by the members of F they lack, in F's order.
C7_VisualizesCompanionFields ==
  (Called /\ lastCall.setter = "setVisualizes" /\ "fields" \in DOMAIN lastCall.args) =>
    LET cur == lastCall.params.fields
        F == lastCall.args.fields
        u == lastCall.update
    IN  /\ IsValue(u, "visualizes")
        /\ u["visualizes"].value = lastCall.args.visualizes
        /\ IF \E i \in 1..Len(F) : ~Includes(cur, F[i])
           THEN /\ DOMAIN u = {"visualizes", "fields"}
                /\ IsValue(u, "fields")
                /\ u["fields"].value = cur \o AbsentMembers(F, cur)
                /\ \A x \in {cur[i] : i \in 1..Len(cur)} :
                     Cardinality({i \in 1..Len(u["fields"].value) : u["fields"].value[i] = x})
                       = Cardinality({i \in 1..Len(cur) : cur[i] = x})
           ELSE DOMAIN u = {"visualizes"}

C7_Witness ==
  /\ Called
  /\ lastCall.setter = "setVisualizes"
  /\ "fields" \in DOMAIN lastCall.args
  /\ lastCall.params.fields = <<"a">>
  /\ lastCall.args.fields = <<"a", "c">>
  /\ IsValue(lastCall.update, "fields")
  /\ lastCall.update["fields"].value = <<"a", "c">>
  /\ Has(location.query, "field")
  /\ location.query["field"] = <<"a", "c">>

\* C8: the groupBys setter called with a mode writes groupBys and mode in one
\* update and one navigation; called without, it writes groupBys and leaves
\* the mode key of the location as it was.
C8_GroupBysWithOptionalMode ==
  (Called /\ lastCall.setter = "setGroupBys") =>
    /\ navCount = lastCall.seq
    /\ IsValue(lastCall.update, "groupBys")
    /\ lastCall.update["groupBys"].value = lastCall.args.groupBys
    /\ getGroupBysFromLocation(location) = lastCall.args.groupBys
    /\ IF "mode" \in DOMAIN lastCall.args
       THEN /\ DOMAIN lastCall.update = {"groupBys", "mode"}
            /\ lastCall.update["mode"] = Val(lastCall.args.mode)
            /\ Has(location.query, "mode")
            /\ getModeFromLocation(location) = lastCall.args.mode
       ELSE /\ DOMAIN lastCall.update = {"groupBys"}
            /\ SameKey(location.query, lastCall.from.query, "mode")

C8_Witness ==
  /\ Called
  /\ lastCall.setter = "setGroupBys"
  /\ "mode" \in DOMAIN lastCall.args
  /\ lastCall.from.query = EmptyQuery
  /\ navCount = 1
  /\ DOMAIN location.query = {"groupBy", "mode"}
  /\ location.query["groupBy"] = <<"b", "">>
  /\ location.query["mode"] = AGGREGATE

\* C9: the parameters the store exposes are the ones derived from the
\* location and organization of the last render, so once the render has
\* caught up with the router they are those of the current location.
C9_ParamsDerivedFromLocation ==
  /\ pageParams = derivePageParams(rendered.location, rendered.organization)
  /\ RenderedCurrent => pageParams = derivePageParams(location, organization)

C9_Witness ==
  /\ Called
  /\ RenderedCurrent
  /\ lastCall.setter = "setVisualizes"
  /\ EquationsEnabled(organization)
  /\ Len(pageParams.visualizes) = 2
  /\ pageParams.visualizes = lastCall.args.visualizes
  /\ lastCall.params.visualizes = defaultVisualizes

\* every field of the update is in the query: cleared when null, written otherwise
Bundled(loc, update) ==
  \A f \in DOMAIN update :
    IF update[f].null
    THEN ~Has(loc.query, KeyOf(f))
    ELSE /\ Has(loc.query, KeyOf(f))
         /\ newExploreTarget(loc, OnlyField(update, f)).query = loc.query

\* C10: every call of the update function navigates exactly once, and the
\* target of that navigation holds all the fields of the update together.
C10_OneNavigationPerCall ==
  [][lastCall'.seq # lastCall.seq =>
       /\ lastCall'.seq = lastCall.seq + 1
       /\ navCount' = navCount + 1
       /\ Bundled(location', lastCall'.update)]_vars

C10_Witness ==
  /\ lastCall.seq = 2
  /\ navCount = 2
  /\ lastCall.setter = "setPageParams"
  /\ DOMAIN lastCall.update = {"mode", "groupBys", "fields"}
  /\ Has(location.query, "mode") /\ location.query["mode"] = AGGREGATE
  /\ Has(location.query, "groupBy") /\ location.query["groupBy"] = <<"b", "">>
  /\ Has(location.query, "field") /\ location.query["field"] = <<"a">>

\* C12: when the mode setter does not merge (the new mode is not SAMPLES, or
\* no group by is non-empty), its update holds the mode only and every other
\* key of the location stays as it was.
C12_ModeOnlyWithoutMerge ==
  ( /\ Called
    /\ lastCall.setter = "setMode"
    /\ \/ lastCall.args.mode # SAMPLES
       \/ \A k \in 1..Len(lastCall.params.groupBys) : lastCall.params.groupBys[k] = "" ) =>
    /\ DOMAIN lastCall.update = {"mode"}
    /\ lastCall.update["mode"] = Val(lastCall.args.mode)
    /\ \A k \in QueryKeys \ {"mode"} : SameKey(location.query, lastCall.from.query, k)

C12_Witness ==
  /\ Called
  /\ lastCall.setter = "setMode"
  /\ lastCall.args.mode = SAMPLES
  /\ lastCall.params.groupBys = <<"", "">>
  /\ lastCall.params.fields = <<"a">>
  /\ DOMAIN lastCall.update = {"mode"}
  /\ DOMAIN location.query = {"field", "groupBy", "mode"}
  /\ location.query["field"] = <<"a">>
  /\ location.query["mode"] = SAMPLES

\* C17: a call made while the router's location is ahead of the rendered one
\* computes its target from the rendered snapshot: when it touches other
\* fields than the earlier calls did, the location it navigates to holds its
\* own change and, for what the earlier calls changed, the value of the snapshot.
C17_LostUpdate ==
  ( /\ Called
    /\ lastCall.stale # {}
    /\ \A f \in DOMAIN lastCall.update : KeyOf(f) \notin lastCall.stale ) =>
    /\ Bundled(location, lastCall.update)
    /\ \A k \in lastCall.stale : SameKey(location.query, lastCall.from.query, k)

C17_Witness ==
  /\ lastCall.seq = 2
  /\ navCount = 2
  /\ lastCall.setter = "setQuery"
  /\ lastCall.stale = {"field"}
  /\ lastCall.from.query = EmptyQuery
  /\ DOMAIN location.query = {"query"}
  /\ location.query["query"] = "q"

(***************************************************************************)
(* Properties of newExploreTarget on objects.                              *)
(***************************************************************************)
\* C13: after newExploreTarget returns, the location object it was given and
\* that location's query object are as they were before the call, the
\* returned location is another object with another query object, and no
\* navigation has happened.
C13_WorksOnAClone ==
  targetCall.pc = "returned" =>
    LET before == targetCall.before
        target == targetCall.target
    IN  /\ \A r \in DOMAIN before : heap[r] = before[r]
        /\ target # InputRef
        /\ heap[target].query # heap[InputRef].query
        /\ Deref(heap, target) = newExploreTarget(Deref(before, InputRef), targetCall.update)
        /\ navCount = 0
        /\ location = rendered.location

C13_Witness ==
  /\ targetCall.pc = "returned"
  /\ targetCall.before[InputQueryRef] = FullQuery
  /\ IsNull(targetCall.update, "sortBys")
  /\ IsValue(targetCall.update, "fields")
  /\ heap[InputQueryRef] = FullQuery
  /\ ~Has(heap[heap[targetCall.target].query], "sort")
  /\ heap[heap[targetCall.target].query] # FullQuery

(***************************************************************************)
(* Properties of findFirstRouteWithoutRouteParam.                          *)
(***************************************************************************)
\* the positions of the list the search considers: all of them, or those from
\* the first occurrence of the given route when the list holds it
Considered(routes, route) ==
  IF route # {} /\ \E i \in 1..Len(routes) : {routes[i]} = route
  THEN {i \in 1..Len(routes) : \E j \in 1..i : {routes[j]} = route}
  ELSE 1..Len(routes)

Plain(r) == "path" \in DOMAIN r /\ r.path # <<>> /\ \A k \in 1..Len(r.path) : r.path[k] # ":"

\* C11: the result is the first considered route with a non-empty path that
\* holds no ':', and the given route (or nothing) when there is none.
C11_FirstRouteWithoutParam ==
  routeCall.pc = "returned" =>
    LET routes == routeCall.routes
        hits == {i \in Considered(routes, routeCall.route) : Plain(routes[i])}
    IN  IF hits = {}
        THEN routeCall.result = routeCall.route
        ELSE \E i \in hits :
               /\ \A j \in hits : i <= j
               /\ routeCall.result = {routes[i]}

C11_Witness ==
  /\ routeCall.pc = "returned"
  /\ Len(routeCall.routes) = 3
  /\ routeCall.routes[1].id = 3
  /\ routeCall.routes[2].id = 4
  /\ routeCall.routes[3].id = 5
  /\ routeCall.route = {routeCall.routes[2]}
  /\ routeCall.result = {routeCall.routes[3]}

(***************************************************************************)
(* Properties of FlamegraphThreadSelector.                                 *)
(***************************************************************************)
Sorted == selector.sortedProfiles

IsActive(profile) == {profile.threadId} = activeThreadId(selector.profileGroup)

Named(profile) == profile.name # ""

NameOrder(a, b) == ~NameGreater(a.name, b.name)

\* C14 as stated: in the sorted list a profile of the active thread id is
\* first, every named profile is before every unnamed one, the named ones
\* ascend by name and the unnamed ones by threadId.
C14_SortOrderAsStated ==
  selector.pc = "rendered" =>
    /\ (\E i \in 1..Len(Sorted) : IsActive(Sorted[i])) => IsActive(Sorted[1])
    /\ \A i, j \in 1..Len(Sorted) : i < j =>
         /\ ~(~Named(Sorted[i]) /\ Named(Sorted[j]))
         /\ Named(Sorted[i]) /\ Named(Sorted[j]) => NameOrder(Sorted[i], Sorted[j])
         /\ ~Named(Sorted[i]) /\ ~Named(Sorted[j]) =>
              Sorted[i].threadId <= Sorted[j].threadId

\* C14, amended: the profiles of the active thread id are first; among the
\* other profiles every named one is before every unnamed one, the named ones
\* ascend by name and the unnamed ones by threadId.
C14_SortOrder ==
  selector.pc = "rendered" =>
    \A i, j \in 1..Len(Sorted) : i < j =>
      /\ IsActive(Sorted[j]) => IsActive(Sorted[i])
      /\ ~IsActive(Sorted[i]) /\ ~IsActive(Sorted[j]) =>
           /\ ~(~Named(Sorted[i]) /\ Named(Sorted[j]))
           /\ Named(Sorted[i]) /\ Named(Sorted[j]) => NameOrder(Sorted[i], Sorted[j])
           /\ ~Named(Sorted[i]) /\ ~Named(Sorted[j]) =>
                Sorted[i].threadId <= Sorted[j].threadId

C14_Witness ==
  /\ selector.pc = "rendered"
  /\ Len(selector.profileGroup.profiles) = 3
  /\ selector.profileGroup.profiles[1].name = "b"
  /\ selector.profileGroup.profiles[2].name = "a"
  /\ selector.profileGroup.profiles[3].threadId = 0
  /\ selector.profileGroup.activeProfileIndex = {2}
  /\ Len(Sorted) = 3
  /\ Sorted[1].threadId = 0
  /\ Sorted[2].name = "a"
  /\ Sorted[3].name = "b"

\* C15: the sanity check calls onThreadIdChange once, with the fallback, when
\* the group is non-empty, threadId is a number no profile has and the
\* fallback differs from it; otherwise it makes no call.
C15_SanityCheck ==
  selector.pc = "rendered" =>
    LET profiles == selector.profileGroup.profiles
        index == selector.profileGroup.activeProfileIndex
        known == {profiles[i].threadId : i \in 1..Len(profiles)}
        fallback == IF \E k \in index : k < Len(profiles)
                    THEN {profiles[k + 1].threadId : k \in index}
                    ELSE {0}
    IN  IF /\ profiles # <<>>
           /\ selector.threadId # {}
           /\ selector.threadId \cap known = {}
           /\ fallback # selector.threadId
        THEN /\ Len(selector.sanityCalls) = 1
             /\ {selector.sanityCalls[1]} = fallback
        ELSE selector.sanityCalls = <<>>

C15_Witness ==
  /\ selector.pc = "rendered"
  /\ Len(selector.profileGroup.profiles) = 2
  /\ selector.profileGroup.activeProfileIndex = {1}
  /\ selector.profileGroup.profiles[2].threadId = 3
  /\ selector.threadId = {4}
  /\ selector.sanityCalls = <<3>>

(***************************************************************************)
(* Properties of SpanDetail.                                               *)
(***************************************************************************)
TheSlugFetch == spanDetail.fetches[SlugFetch(spanDetail.version)]

NonEmptyArray(fetch) ==
  /\ ~fetch.rejected
  /\ fetch.response # {}
  /\ \A r \in fetch.response :
       /\ "data" \in DOMAIN r
       /\ r.data.type = "array"
       /\ r.data.items # <<>>

\* C16: the slug is set, and then the button shown, only once the fetch has
\* resolved with a non-empty array as data; a rejected fetch and a response
\* with data missing, not an array or empty leave no slug, no button and no
\* error; the root span of the isRoot version issues no fetch.
C16_SlugOnlyFromNonEmptyArray ==
  /\ spanDetail.eventSlug # {} =>
       /\ TheSlugFetch.phase \in {"then", "done"}
       /\ NonEmptyArray(TheSlugFetch)
       /\ renderTraversalButton(spanDetail) # {}
  /\ TheSlugFetch.phase \in {"then", "done"} /\ ~NonEmptyArray(TheSlugFetch) =>
       /\ spanDetail.eventSlug = {}
       /\ renderTraversalButton(spanDetail) = {}
       /\ spanDetail.errors = 0
  /\ spanDetail.version = "isRoot" /\ spanDetail.isRoot =>
       \A n \in FetchNames : spanDetail.fetches[n].phase = "none"

C16_Witness ==
  /\ spanDetail.version = "parent"
  /\ spanDetail.fetches["parent"].phase = "done"
  /\ spanDetail.fetches["log"].phase = "done"
  /\ spanDetail.fetches["log"].rejected
  /\ spanDetail.eventSlug = {<<"p1", ":", "e1">>}
  /\ renderTraversalButton(spanDetail) # {}

====
